---- MODULE Spec2Model ----
(***************************************************************************)
(* git-sexp: S-expressions (atoms, cons pairs, the empty list) stored as   *)
(* blobs and trees of a git object database, with a linear history of      *)
(* commits on the branch "history".                                        *)
(*                                                                         *)
(* Strings are sequences of UTF-16 code units, as in JavaScript.  Object   *)
(* ids are the SHA-1 of the object's serialisation; the model keeps the    *)
(* hash collision-free by letting the id carry the hashed content.         *)
(***************************************************************************)
EXTENDS Integers, Sequences, FiniteSets, TLC

VARIABLES
    store,      \* the object database of GITDIR: oid -> object
    head,       \* refs/heads/history: <<>> (no branch) or <<commit oid>>
    now,        \* the clock git.commit stamps commits with
    src,        \* the call that produced expr, with its arguments
    expr,       \* the GitSexpExpression last returned (or what it threw)
    js,         \* the JsSexp last returned by gitSexpToJsSexp
    arr,        \* the outcome of the last consListToStringArray call
    encoded,    \* every value passed to jsSexpToGitSexp, with the oid returned
    work,       \* number of objects the callers have asked to write
    strings,    \* the caller's string[] handed to stringArrayToConsList
    orig,       \* the contents of strings when the caller built it
    lists,      \* the result of each list-building call on strings, in order
    appended,   \* the tree oid of each completed updateBranchHead, in order
    pc,         \* per writer: where it is in updateBranchHead
    seen,       \* per writer: the head commit oid its resolveRef returned
    made,       \* per writer: the commit its git.commit wrote
    arg         \* per writer: the list it is appending

vars == <<store, head, now, src, expr, js, arr, encoded, work, strings, orig,
          lists, appended, pc, seen, made, arg>>

(***************************************************************************)
(* Bounds of the model.                                                    *)
(***************************************************************************)
MaxWork == 3      \* objects one behaviour of the codec asks to write
MaxWrites == 3    \* objects one behaviour of the store or the history writes
MaxLen == 3       \* length of the caller's string[]
MaxCalls == 2     \* list-building calls on the same string[]
MaxAppends == 3   \* updateBranchHead calls
MaxTime == 1      \* ticks of the commit clock
MaxRounds == 1    \* updateBranchHead calls of each concurrent writer

(***************************************************************************)
(* JavaScript strings and Buffer's UTF-8 conversions.                      *)
(***************************************************************************)
IsHighSurrogate(u) == u >= 55296 /\ u <= 56319
IsLowSurrogate(u) == u >= 56320 /\ u <= 57343

\* The code points Buffer.from(str) encodes: a surrogate pair is one
\* supplementary code point, an unpaired surrogate becomes U+FFFD.
RECURSIVE CodePoints(_)
CodePoints(str) ==
    IF str = <<>> THEN <<>>
    ELSE IF IsHighSurrogate(str[1]) /\ Len(str) >= 2 /\ IsLowSurrogate(str[2])
         THEN <<65536 + (str[1] - 55296) * 1024 + (str[2] - 56320)>>
                  \o CodePoints(SubSeq(str, 3, Len(str)))
    ELSE IF IsHighSurrogate(str[1]) \/ IsLowSurrogate(str[1])
         THEN <<65533>> \o CodePoints(Tail(str))
    ELSE <<str[1]>> \o CodePoints(Tail(str))

Utf8Bytes(cp) ==
    IF cp < 128 THEN <<cp>>
    ELSE IF cp < 2048 THEN <<192 + (cp \div 64), 128 + (cp % 64)>>
    ELSE IF cp < 65536
         THEN <<224 + (cp \div 4096), 128 + ((cp \div 64) % 64), 128 + (cp % 64)>>
    ELSE <<240 + (cp \div 262144), 128 + ((cp \div 4096) % 64),
           128 + ((cp \div 64) % 64), 128 + (cp % 64)>>

RECURSIVE EncodeCodePoints(_)
EncodeCodePoints(cps) ==
    IF cps = <<>> THEN <<>>
    ELSE Utf8Bytes(cps[1]) \o EncodeCodePoints(Tail(cps))

\* Buffer.from(str): the UTF-8 bytes of a string
BufferFrom(str) == EncodeCodePoints(CodePoints(str))

IsContinuation(bytes, i) == i <= Len(bytes) /\ bytes[i] >= 128 /\ bytes[i] < 192

CodeUnits(cp) ==
    IF cp < 65536 THEN <<cp>>
    ELSE <<55296 + ((cp - 65536) \div 1024), 56320 + ((cp - 65536) % 1024)>>

\* Buffer.toString(): the string of UTF-8 bytes; a byte that starts no
\* well-formed sequence decodes to U+FFFD.
RECURSIVE BufferToString(_)
BufferToString(bytes) ==
    IF bytes = <<>> THEN <<>>
    ELSE LET b == bytes[1]
             rest(n) == BufferToString(SubSeq(bytes, n + 1, Len(bytes)))
         IN  IF b < 128 THEN <<b>> \o rest(1)
             ELSE IF b >= 192 /\ b < 224 /\ IsContinuation(bytes, 2)
                  THEN CodeUnits((b - 192) * 64 + (bytes[2] - 128)) \o rest(2)
             ELSE IF b >= 224 /\ b < 240 /\ IsContinuation(bytes, 2)
                       /\ IsContinuation(bytes, 3)
                  THEN CodeUnits((b - 224) * 4096 + (bytes[2] - 128) * 64
                                   + (bytes[3] - 128)) \o rest(3)
             ELSE IF b >= 240 /\ IsContinuation(bytes, 2)
                       /\ IsContinuation(bytes, 3) /\ IsContinuation(bytes, 4)
                  THEN CodeUnits((b - 240) * 262144 + (bytes[2] - 128) * 4096
                                   + (bytes[3] - 128) * 64 + (bytes[4] - 128))
                           \o rest(4)
             ELSE <<65533>> \o rest(1)

(***************************************************************************)
(* JsSexp: null, a string, or a two-element array.                         *)
(***************************************************************************)
JsEmptySexp == [k |-> "null"]
JsAtom(str) == [k |-> "string", s |-> str]
JsCons(a, b) == [k |-> "array", car |-> a, cdr |-> b]

isJsAtom(sexp) == sexp.k = "string"
isJsCons(sexp) == sexp.k = "array"
isJsEmptySexp(sexp) == sexp.k = "null"

(***************************************************************************)
(* The git object database (isomorphic-git).                               *)
(***************************************************************************)
Blob(bytes) == [type |-> "blob", bytes |-> bytes]
Tree(entries) == [type |-> "tree", entries |-> entries]
Commit(tree, parent, time) ==
    [type |-> "commit", tree |-> tree, parent |-> parent, time |-> time]

\* The SHA-1 object id of an object
Hash(object) == [sha1 |-> object]

\* '4b825dc642cb6eb9a060e54bf8d69288fbee4904', git's id of the empty tree
EmptyTreeOid == Hash(Tree(<<>>))

GitSexpEmptyValue == [type |-> "git-sexp-empty", oid |-> EmptyTreeOid]
GitSexpAtom(value, oid) == [type |-> "git-sexp-atom", value |-> value, oid |-> oid]
GitSexpCons(car, cdr, oid) ==
    [type |-> "git-sexp-cons", car |-> car, cdr |-> cdr, oid |-> oid]
GitSexpAtomLazy(oid) == [type |-> "git-sexp-atom-lazy", oid |-> oid]
GitSexpConsLazy(car, cdr, oid) ==
    [type |-> "git-sexp-cons-lazy", car |-> car, cdr |-> cdr, oid |-> oid]

\* What a call leaves when it throws
Thrown == [type |-> "thrown"]

\* git.writeBlob / git.writeTree / git.commit store an object under its id;
\* an object already present is left as it is.
gitWriteObject(st, object) ==
    IF Hash(object) \in DOMAIN st THEN st ELSE (Hash(object) :> object) @@ st

\* git.readObject: the object's type, format and content, or a throw
gitReadObject(st, oid) ==
    IF oid \notin DOMAIN st THEN Thrown
    ELSE [type |-> st[oid].type,
          format |-> IF st[oid].type = "blob" THEN "content" ELSE "parsed",
          object |-> st[oid]]

\* git.readTree: the entries of a tree; a commit is peeled to its tree
gitReadTree(st, oid) ==
    IF oid = EmptyTreeOid THEN [tree |-> <<>>]
    ELSE IF oid \notin DOMAIN st THEN Thrown
    ELSE IF st[oid].type = "tree" THEN [tree |-> st[oid].entries]
    ELSE IF st[oid].type = "commit"
         THEN IF st[oid].tree = EmptyTreeOid THEN [tree |-> <<>>]
              ELSE IF st[oid].tree \in DOMAIN st /\ st[st[oid].tree].type = "tree"
                   THEN [tree |-> st[st[oid].tree].entries]
              ELSE Thrown
    ELSE Thrown

(***************************************************************************)
(* Writing expressions.                                                    *)
(***************************************************************************)
writeGitSexpAtom(st, str) ==
    LET blob == Blob(BufferFrom(str))
    IN  [st |-> gitWriteObject(st, blob),
         ret |-> GitSexpAtom(str, Hash(blob))]

getTypeAndMode(sexp) ==
    IF sexp.type = "git-sexp-empty" THEN [type |-> "tree", mode |-> "040000"]
    ELSE IF sexp.type \in {"git-sexp-atom", "git-sexp-atom-lazy"}
         THEN [type |-> "blob", mode |-> "100644"]
    ELSE [type |-> "tree", mode |-> "040000"]

\* The two entries writeGitSexpCons and writeGitSexpConsLazy hand to writeTree
ConsTreeEntries(car, cdr) ==
    << [path |-> "car", mode |-> getTypeAndMode(car).mode,
        type |-> getTypeAndMode(car).type, oid |-> car.oid],
       [path |-> "cdr", mode |-> getTypeAndMode(cdr).mode,
        type |-> getTypeAndMode(cdr).type, oid |-> cdr.oid] >>

\* writeGitSexpCons returning the pair with car and cdr exchanged
writeGitSexpConsSwapped(st, car, cdr) ==
    LET tree == Tree(ConsTreeEntries(car, cdr))
    IN  [st |-> gitWriteObject(st, tree),
         ret |-> GitSexpCons(cdr, car, Hash(tree))]

writeGitSexpCons(st, car, cdr) ==
    LET tree == Tree(ConsTreeEntries(car, cdr))
    IN  [st |-> gitWriteObject(st, tree),
         ret |-> GitSexpCons(car, cdr, Hash(tree))]

writeGitSexpConsLazy(st, car, cdr) ==
    LET tree == Tree(ConsTreeEntries(car, cdr))
    IN  [st |-> gitWriteObject(st, tree),
         ret |-> GitSexpConsLazy(car, cdr, Hash(tree))]

RECURSIVE jsSexpToGitSexp(_, _)
jsSexpToGitSexp(st, value) ==
    IF isJsEmptySexp(value) THEN [st |-> st, ret |-> GitSexpEmptyValue]
    ELSE IF isJsAtom(value) THEN writeGitSexpAtom(st, value.s)
    ELSE IF isJsCons(value)
         THEN LET car == jsSexpToGitSexp(st, value.car)
                  cdr == jsSexpToGitSexp(car.st, value.cdr)
              IN  writeGitSexpCons(cdr.st, car.ret, cdr.ret)
    ELSE [st |-> st, ret |-> Thrown]

\* consStringOntoGitSexpExpression consing onto the empty list
consStringOntoEmpty(st, str, sexp) ==
    LET atom == writeGitSexpAtom(st, str)
    IN  writeGitSexpCons(atom.st, atom.ret, GitSexpEmptyValue)

consStringOntoGitSexpExpression(st, str, sexp) ==
    LET atom == writeGitSexpAtom(st, str)
    IN  writeGitSexpCons(atom.st, atom.ret, sexp)

(***************************************************************************)
(* Reading expressions.                                                    *)
(***************************************************************************)
isValidGitSexpAtomObject(objectInfo) ==
    /\ objectInfo.type = "blob"
    /\ objectInfo.format \in {"content", "parsed"}

\* isValidGitSexpConsObject without the check of the number of entries
isValidGitSexpConsObjectAnyLength(objectInfo, tree) ==
    IF objectInfo.type # "tree" \/ objectInfo.format \notin {"content", "parsed"}
    THEN FALSE
    ELSE /\ \E i \in 1..Len(tree) : tree[i].path = "car"
         /\ \E i \in 1..Len(tree) : tree[i].path = "cdr"

isValidGitSexpConsObject(objectInfo, tree) ==
    IF objectInfo.type # "tree" \/ objectInfo.format \notin {"content", "parsed"}
    THEN FALSE
    ELSE IF Len(tree) # 2 THEN FALSE
    ELSE /\ \E i \in 1..Len(tree) : tree[i].path = "car"
         /\ \E i \in 1..Len(tree) : tree[i].path = "cdr"

isGitSexpAtomOid(st, oid) ==
    LET objectInfo == gitReadObject(st, oid)
    IN  IF objectInfo = Thrown THEN FALSE ELSE isValidGitSexpAtomObject(objectInfo)

readGitSexpAtom(st, oid) ==
    LET objectInfo == gitReadObject(st, oid)
    IN  IF objectInfo = Thrown THEN Thrown
        ELSE IF isValidGitSexpAtomObject(objectInfo)
             THEN GitSexpAtom(BufferToString(objectInfo.object.bytes), oid)
        ELSE Thrown

\* tree.find((entry) => entry.path === name)
FindEntry(tree, name) ==
    tree[CHOOSE i \in 1..Len(tree) :
            /\ tree[i].path = name
            /\ \A j \in 1..(i - 1) : tree[j].path # name]

LazyOfEntry(entry) ==
    IF entry.oid = EmptyTreeOid THEN GitSexpEmptyValue
    ELSE IF entry.type = "blob" THEN GitSexpAtomLazy(entry.oid)
    ELSE [type |-> "git-sexp-cons-lazy", oid |-> entry.oid]

readGitSexpConsLazy(st, oid) ==
    LET objectInfo == gitReadObject(st, oid)
    IN  IF objectInfo = Thrown THEN Thrown
        ELSE LET read == IF objectInfo.format = "parsed" /\ objectInfo.type = "tree"
                         THEN [tree |-> objectInfo.object.entries]
                         ELSE gitReadTree(st, oid)
             IN  IF read = Thrown THEN Thrown
                 ELSE IF ~isValidGitSexpConsObject(objectInfo, read.tree) THEN Thrown
                 ELSE GitSexpConsLazy(LazyOfEntry(FindEntry(read.tree, "car")),
                                      LazyOfEntry(FindEntry(read.tree, "cdr")), oid)

RECURSIVE readGitSexpExpression(_, _)
readGitSexpExpression(st, oid) ==
    IF oid = GitSexpEmptyValue.oid THEN GitSexpEmptyValue
    ELSE IF isGitSexpAtomOid(st, oid) THEN readGitSexpAtom(st, oid)
    ELSE LET consLazy == readGitSexpConsLazy(st, oid)
         IN  IF consLazy = Thrown THEN Thrown
             ELSE LET car == readGitSexpExpression(st, consLazy.car.oid)
                  IN  IF car = Thrown THEN Thrown
                      ELSE LET cdr == readGitSexpExpression(st, consLazy.cdr.oid)
                           IN  IF cdr = Thrown THEN Thrown
                               ELSE GitSexpCons(car, cdr, oid)

RECURSIVE gitSexpToJsSexp(_)
gitSexpToJsSexp(sexp) ==
    IF sexp.type = "git-sexp-empty" THEN JsEmptySexp
    ELSE IF sexp.type = "git-sexp-atom" THEN JsAtom(sexp.value)
    ELSE IF sexp.type = "git-sexp-cons"
         THEN JsCons(gitSexpToJsSexp(sexp.car), gitSexpToJsSexp(sexp.cdr))
    ELSE [k |-> "thrown"]

(***************************************************************************)
(* Lists.                                                                  *)
(***************************************************************************)
\* Array.prototype.reverse
Reverse(a) == [i \in 1..Len(a) |-> a[Len(a) + 1 - i]]

\* reduce((list, str) => [str, list], list) over an array of strings
RECURSIVE ReduceCons(_, _)
ReduceCons(a, list) ==
    IF a = <<>> THEN list
    ELSE ReduceCons(Tail(a), JsCons(JsAtom(a[1]), list))

\* strings.reverse() reverses the caller's array in place and returns it;
\* the call leaves the list in ret and the array's new contents in strings.
stringArrayToConsList(strs) ==
    [ret |-> ReduceCons(Reverse(strs), JsEmptySexp), strings |-> Reverse(strs)]

ReturnedArray(val) == [state |-> "returned", val |-> val]
ThrownArray == [state |-> "thrown"]

RECURSIVE consListToStringArray(_)

\* consListToStringArray passing over a car that is not a string
consListToStringArraySkipping(sexp) ==
    IF isJsEmptySexp(sexp) THEN ReturnedArray(<<>>)
    ELSE IF isJsAtom(sexp) THEN ReturnedArray(<<sexp.s>>)
    ELSE IF isJsCons(sexp)
         THEN LET rest == consListToStringArray(sexp.cdr)
              IN  IF rest = ThrownArray THEN ThrownArray
                  ELSE IF isJsAtom(sexp.car) THEN ReturnedArray(<<sexp.car.s>> \o rest.val)
                  ELSE rest
    ELSE ThrownArray

consListToStringArray(sexp) ==
    IF isJsEmptySexp(sexp) THEN ReturnedArray(<<>>)
    ELSE IF isJsAtom(sexp) THEN ReturnedArray(<<sexp.s>>)
    ELSE IF isJsCons(sexp) /\ isJsAtom(sexp.car)
         THEN LET rest == consListToStringArray(sexp.cdr)
              IN  IF rest = ThrownArray THEN ThrownArray
                  ELSE ReturnedArray(<<sexp.car.s>> \o rest.val)
    ELSE ThrownArray

\* The loop of writeGitSexpListLazy from index i down to 1
RECURSIVE WriteListFrom(_, _, _, _)
WriteListFrom(st, sexps, i, currentSexp) ==
    IF i = 0 THEN [st |-> st, ret |-> currentSexp]
    ELSE IF sexps[i].type # "null"
         THEN LET w == writeGitSexpConsLazy(st, sexps[i], currentSexp)
              IN  WriteListFrom(w.st, sexps, i - 1, w.ret)
    ELSE WriteListFrom(st, sexps, i - 1, currentSexp)

writeGitSexpListLazy(st, sexps) ==
    WriteListFrom(st, sexps, Len(sexps), GitSexpEmptyValue)

\* strs.map(writeGitSexpAtom), each atom kept by its oid only
RECURSIVE WriteAtomsLazy(_, _)
WriteAtomsLazy(st, strs) ==
    IF strs = <<>> THEN [st |-> st, ret |-> <<>>]
    ELSE LET a == writeGitSexpAtom(st, strs[1])
             r == WriteAtomsLazy(a.st, Tail(strs))
         IN  [st |-> r.st, ret |-> <<GitSexpAtomLazy(a.ret.oid)>> \o r.ret]

(***************************************************************************)
(* The history branch.                                                     *)
(***************************************************************************)
\* git.listBranches
gitListBranches(h) == IF h = <<>> THEN {} ELSE {"history"}

\* git.resolveRef({ref: HISTORY_BRANCH})
gitResolveRef(h) == IF h = <<>> THEN Thrown ELSE h[1]

\* git.commit: writes the commit and points the branch at it
gitCommit(st, tree, parent, time) ==
    LET commit == Commit(tree, parent, time)
    IN  [st |-> gitWriteObject(st, commit), head |-> <<Hash(commit)>>,
         oid |-> Hash(commit)]

\* isRepoEmpty comparing the number of branches with >= 0
isRepoEmptyAlways(h) == Cardinality(gitListBranches(h)) >= 0

isRepoEmpty(h) == Cardinality(gitListBranches(h)) = 0

setupGitSexpRepo(st, h, time) ==
    IF isRepoEmpty(h)
    THEN LET c == gitCommit(st, GitSexpEmptyValue.oid, <<>>, time)
         IN  [st |-> c.st, head |-> c.head]
    ELSE [st |-> st, head |-> h]

\* The commit of updateBranchHead written without a parent
CommitOntoNoParent(st, sexpList, headCommitOid, time) ==
    gitCommit(st, sexpList.oid, <<>>, time)

\* The commit of updateBranchHead taking the branch head as it is when it commits
CommitOntoCurrentHead(st, sexpList, headCommitOid, time) ==
    gitCommit(st, sexpList.oid, <<head[1]>>, time)

\* updateBranchHead after its resolveRef returned headCommitOid
CommitOnto(st, sexpList, headCommitOid, time) ==
    gitCommit(st, sexpList.oid, <<headCommitOid>>, time)

updateBranchHead(st, h, sexpList, time) ==
    LET headCommitOid == gitResolveRef(h)
    IN  IF headCommitOid = Thrown THEN [st |-> st, head |-> h, oid |-> Thrown]
        ELSE CommitOnto(st, sexpList, headCommitOid, time)

loadHistoryGitSexpList(st, h) ==
    LET headCommitOid == gitResolveRef(h)
    IN  IF headCommitOid = Thrown THEN Thrown
        ELSE IF headCommitOid \notin DOMAIN st \/ st[headCommitOid].type # "commit"
             THEN Thrown
        ELSE readGitSexpExpression(st, st[headCommitOid].tree)

(***************************************************************************)
(* Inputs.                                                                 *)
(***************************************************************************)
Writers == {1, 2}

\* "", "a", an unpaired high surrogate and an unpaired low surrogate
Strs == {<<>>, <<97>>, <<55357>>, <<56832>>}

\* "a", "b" and U+1F600 (a surrogate pair)
Items == {<<97>>, <<98>>, <<55357, 56832>>}

Leaves == {JsEmptySexp} \cup {JsAtom(s) : s \in Strs}

\* The values with exactly n cons cells
RECURSIVE JsSexpsOfSize(_)
JsSexpsOfSize(n) ==
    IF n = 0 THEN Leaves
    ELSE UNION {{JsCons(a, b) : a \in JsSexpsOfSize(i), b \in JsSexpsOfSize(n - 1 - i)} :
                  i \in 0..(n - 1)}

JsSexps == [n \in 0..(MaxWork - 1) |-> JsSexpsOfSize(n)]

Arrays == UNION {[1..n -> Items] : n \in 0..MaxLen}

ABlobOid == Hash(Blob(BufferFrom(<<97>>)))
BlobEntry(path, oid) == [path |-> path, mode |-> "100644", type |-> "blob", oid |-> oid]
TreeEntry(path, oid) == [path |-> path, mode |-> "040000", type |-> "tree", oid |-> oid]
FooBar == <<BlobEntry("bar", ABlobOid), BlobEntry("foo", ABlobOid)>>
CarCdrFoo == <<BlobEntry("car", ABlobOid), TreeEntry("cdr", EmptyTreeOid),
               BlobEntry("foo", ABlobOid)>>

\* Trees another user of the repository may write: wrong names, wrong
\* number of entries, and a car/cdr tree whose cdr is the foo/bar tree
OtherTrees ==
    { FooBar,
      <<BlobEntry("car", ABlobOid)>>,
      CarCdrFoo,
      <<BlobEntry("car", ABlobOid), TreeEntry("cdr", Hash(Tree(FooBar)))>> }

\* An id that names no object
MissingOid == Hash([type |-> "none"])

NoExpr == [type |-> "none"]
NoJs == [k |-> "none"]
NoArray == [state |-> "none"]
NoCall == [op |-> "none"]

IsExpression(e) == e.type \in {"git-sexp-empty", "git-sexp-atom", "git-sexp-cons"}
IsList(e) == e.type \in {"git-sexp-empty", "git-sexp-cons"}

\* The expressions a caller holds: the exported constant and the last result
Held == {GitSexpEmptyValue} \cup (IF IsExpression(expr) THEN {expr} ELSE {})

Commits(st) == {o \in DOMAIN st : st[o].type = "commit"}

(***************************************************************************)
(* Initial state: a new GITDIR, nothing called yet.                        *)
(***************************************************************************)
InitRepo ==
    /\ store = <<>>
    /\ head = <<>>
    /\ now = 0

InitCalls ==
    /\ src = NoCall
    /\ expr = NoExpr
    /\ arr = NoArray
    /\ encoded = {}
    /\ work = 0
    /\ lists = <<>>
    /\ appended = <<>>

InitIdle ==
    /\ pc = [w \in Writers |-> [at |-> "idle", rounds |-> 0]]
    /\ seen = [w \in Writers |-> NoExpr]
    /\ made = [w \in Writers |-> NoExpr]
    /\ arg = [w \in Writers |-> NoExpr]

Init ==
    /\ InitRepo
    /\ InitCalls
    /\ InitIdle
    /\ js = NoJs
    /\ strings = <<>>
    /\ orig = <<>>

repoVars == <<store, head, now>>
listVars == <<strings, orig, lists>>
writerVars == <<pc, seen, made, arg>>

(***************************************************************************)
(* Calls on the codec.                                                     *)
(***************************************************************************)
JsSexpToGitSexp(value, n) ==
    /\ work + n + 1 <= MaxWork
    /\ LET w == jsSexpToGitSexp(store, value)
       IN  /\ store' = w.st
           /\ expr' = w.ret
           /\ encoded' = encoded \cup {[value |-> value, oid |-> w.ret.oid]}
    /\ src' = [op |-> "jsSexpToGitSexp", value |-> value]
    /\ work' = work + n + 1
    /\ js' = NoJs
    /\ arr' = NoArray
    /\ UNCHANGED <<head, now, appended, listVars, writerVars>>

GitSexpToJsSexp ==
    /\ IsExpression(expr)
    /\ js = NoJs
    /\ js' = gitSexpToJsSexp(expr)
    /\ arr' = NoArray
    /\ UNCHANGED <<repoVars, src, expr, encoded, work, appended, listVars, writerVars>>

ConsListToStringArray ==
    /\ js # NoJs
    /\ arr = NoArray
    /\ arr' = consListToStringArray(js)
    /\ UNCHANGED <<repoVars, src, expr, js, encoded, work, appended, listVars, writerVars>>

ReadGitSexpExpression(oid) ==
    /\ expr' = readGitSexpExpression(store, oid)
    /\ src' = [op |-> "readGitSexpExpression", oid |-> oid]
    /\ js' = NoJs
    /\ arr' = NoArray
    /\ UNCHANGED <<repoVars, encoded, work, appended, listVars, writerVars>>

ConsStringOntoGitSexpExpression(str, sexp) ==
    /\ work < MaxWrites
    /\ LET w == consStringOntoGitSexpExpression(store, str, sexp)
       IN  /\ store' = w.st
           /\ expr' = w.ret
    /\ src' = [op |-> "consStringOntoGitSexpExpression", str |-> str, sexp |-> sexp,
               store |-> store]
    /\ work' = work + 1
    /\ js' = NoJs
    /\ arr' = NoArray
    /\ UNCHANGED <<head, now, encoded, appended, listVars, writerVars>>

\* Another user of the repository writes a tree with git.writeTree
WriteTree(entries) ==
    /\ work < MaxWrites
    /\ store' = gitWriteObject(store, Tree(entries))
    /\ work' = work + 1
    /\ src' = NoCall
    /\ expr' = NoExpr
    /\ js' = NoJs
    /\ arr' = NoArray
    /\ UNCHANGED <<head, now, encoded, appended, listVars, writerVars>>

(***************************************************************************)
(* Calls on lists.                                                         *)
(***************************************************************************)
StringArrayToConsList ==
    /\ Len(lists) < MaxCalls
    /\ LET r == stringArrayToConsList(strings)
       IN  /\ strings' = r.strings
           /\ js' = r.ret
           /\ lists' = Append(lists, [list |-> r.ret, oid |-> NoExpr])
    /\ src' = [op |-> "stringArrayToConsList"]
    /\ expr' = NoExpr
    /\ arr' = NoArray
    /\ UNCHANGED <<repoVars, encoded, work, orig, appended, writerVars>>

\* The caller writes the list stringArrayToConsList returned
JsSexpToGitSexpOfList ==
    /\ src.op = "stringArrayToConsList"
    /\ expr = NoExpr
    /\ LET w == jsSexpToGitSexp(store, js)
       IN  /\ store' = w.st
           /\ expr' = w.ret
           /\ lists' = [lists EXCEPT ![Len(lists)].oid = w.ret.oid]
    /\ UNCHANGED <<head, now, src, js, arr, encoded, work, strings, orig, appended,
                   writerVars>>

\* The caller writes each string as an atom and the atoms as a list
WriteGitSexpListLazy ==
    /\ Len(lists) < MaxCalls
    /\ LET a == WriteAtomsLazy(store, strings)
           w == writeGitSexpListLazy(a.st, a.ret)
       IN  /\ store' = w.st
           /\ expr' = readGitSexpExpression(w.st, w.ret.oid)
           /\ lists' = Append(lists,
                  [list |-> gitSexpToJsSexp(readGitSexpExpression(w.st, w.ret.oid)),
                   oid |-> w.ret.oid])
    /\ src' = [op |-> "writeGitSexpListLazy"]
    /\ js' = NoJs
    /\ arr' = NoArray
    /\ UNCHANGED <<head, now, encoded, work, strings, orig, appended, writerVars>>

(***************************************************************************)
(* Calls on the history.                                                   *)
(***************************************************************************)
SetupGitSexpRepo ==
    /\ LET s == setupGitSexpRepo(store, head, now)
       IN  /\ store' = s.st
           /\ head' = s.head
    /\ src' = [op |-> "setupGitSexpRepo", head |-> head, store |-> store]
    /\ expr' = NoExpr
    /\ js' = NoJs
    /\ arr' = NoArray
    /\ UNCHANGED <<now, encoded, work, appended, listVars, writerVars>>

UpdateBranchHead(sexpList) ==
    /\ Len(appended) < MaxAppends
    /\ LET u == updateBranchHead(store, head, sexpList, now)
       IN  /\ store' = u.st
           /\ head' = u.head
           /\ appended' = IF u.oid = Thrown THEN appended
                          ELSE Append(appended, sexpList.oid)
           /\ src' = [op |-> "updateBranchHead", thrown |-> (u.oid = Thrown)]
    /\ js' = NoJs
    /\ arr' = NoArray
    /\ UNCHANGED <<now, expr, encoded, work, listVars, writerVars>>

LoadHistoryGitSexpList ==
    /\ expr' = loadHistoryGitSexpList(store, head)
    /\ src' = [op |-> "loadHistoryGitSexpList"]
    /\ js' = NoJs
    /\ arr' = NoArray
    /\ UNCHANGED <<repoVars, encoded, work, appended, listVars, writerVars>>

\* A second of wall-clock time passes
Tick ==
    /\ now < MaxTime
    /\ now' = now + 1
    /\ UNCHANGED <<store, head, src, expr, js, arr, encoded, work, appended,
                   listVars, writerVars>>

(***************************************************************************)
(* Two writers calling updateBranchHead concurrently: each await is a      *)
(* point where the other may run.                                          *)
(***************************************************************************)
\* await git.resolveRef(...)
ResolveRef(w, sexpList) ==
    /\ pc[w].at = "idle"
    /\ pc[w].rounds < MaxRounds
    /\ gitResolveRef(head) # Thrown
    /\ seen' = [seen EXCEPT ![w] = gitResolveRef(head)]
    /\ arg' = [arg EXCEPT ![w] = sexpList]
    /\ pc' = [pc EXCEPT ![w].at = "resolved"]
    /\ UNCHANGED <<repoVars, src, expr, js, arr, encoded, work, appended, listVars, made>>

\* await git.commit(...)
CommitStep(w) ==
    /\ pc[w].at = "resolved"
    /\ LET c == CommitOnto(store, arg[w], seen[w], now)
       IN  /\ store' = c.st
           /\ head' = c.head
           /\ made' = [made EXCEPT ![w] = c.oid]
    /\ appended' = Append(appended, arg[w].oid)
    /\ pc' = [pc EXCEPT ![w] = [at |-> "idle", rounds |-> pc[w].rounds + 1]]
    /\ UNCHANGED <<now, src, expr, js, arr, encoded, work, listVars, seen, arg>>

(***************************************************************************)
(* Specifications.                                                         *)
(***************************************************************************)
\* The codec: values are written, read back by id and converted back
Next ==
    \/ \E n \in 0..(MaxWork - 1) : \E value \in JsSexps[n] : JsSexpToGitSexp(value, n)
    \/ GitSexpToJsSexp
    \/ \E oid \in {e.oid : e \in encoded} \cup {MissingOid} : ReadGitSexpExpression(oid)

Spec == Init /\ [][Next]_vars

\* consListToStringArray on any value
InitSeq ==
    /\ InitRepo
    /\ InitCalls
    /\ InitIdle
    /\ \E n \in 0..(MaxWork - 1) : \E value \in JsSexps[n] : js = value
    /\ strings = <<>>
    /\ orig = <<>>

NextSeq == ConsListToStringArray

SpecSeq == InitSeq /\ [][NextSeq]_vars

\* The store: lists grow by consing, other trees appear, anything is read
NextStore ==
    \/ \E str \in Strs : \E sexp \in Held : ConsStringOntoGitSexpExpression(str, sexp)
    \/ \E entries \in OtherTrees : WriteTree(entries)
    \/ \E oid \in DOMAIN store \cup {EmptyTreeOid, MissingOid} : ReadGitSexpExpression(oid)
    \/ GitSexpToJsSexp
    \/ ConsListToStringArray
    \/ SetupGitSexpRepo

SpecStore == Init /\ [][NextStore]_vars

\* Lists built from one string[] of the caller
InitList ==
    /\ InitRepo
    /\ InitCalls
    /\ InitIdle
    /\ js = NoJs
    /\ \E a \in Arrays : strings = a /\ orig = a

NextList ==
    \/ StringArrayToConsList
    \/ JsSexpToGitSexpOfList
    \/ WriteGitSexpListLazy

SpecList == InitList /\ [][NextList]_vars

\* The history, one call at a time
NextHistory ==
    \/ SetupGitSexpRepo
    \/ \E sexp \in Held : ConsStringOntoGitSexpExpression(<<97>>, sexp)
    \/ \E sexpList \in {e \in Held : IsList(e)} : UpdateBranchHead(sexpList)
    \/ LoadHistoryGitSexpList
    \/ Tick

SpecHistory == Init /\ [][NextHistory]_vars

\* Two concurrent writers on an initialized history that holds two lists
ListA == consStringOntoGitSexpExpression(<<>>, <<97>>, GitSexpEmptyValue)
ListB == consStringOntoGitSexpExpression(ListA.st, <<98>>, ListA.ret)
WriterLists == {GitSexpEmptyValue, ListA.ret, ListB.ret}

InitWriters ==
    /\ store = setupGitSexpRepo(ListB.st, <<>>, 0).st
    /\ head = setupGitSexpRepo(ListB.st, <<>>, 0).head
    /\ now = 0
    /\ InitCalls
    /\ InitIdle
    /\ js = NoJs
    /\ strings = <<>>
    /\ orig = <<>>

NextWriters ==
    \/ \E w \in Writers : \E sexpList \in WriterLists : ResolveRef(w, sexpList)
    \/ \E w \in Writers : CommitStep(w)
    \/ Tick

SpecWriters == InitWriters /\ [][NextWriters]_vars

(***************************************************************************)
(* Properties.                                                             *)
(***************************************************************************)
IsCons(e) == e.type = "git-sexp-cons"

\* C1: converting the expression jsSexpToGitSexp returned for a value back
\* with gitSexpToJsSexp gives that value.
C1_RoundTrip ==
    (src.op = "jsSexpToGitSexp" /\ js # NoJs) => js = src.value

C1_Witness ==
    /\ src.op = "jsSexpToGitSexp"
    /\ js = src.value
    /\ isJsCons(js)
    /\ isJsCons(js.car)

\* C2: reading back the id jsSexpToGitSexp returned for a value, at any later
\* time, and converting the result gives that value.
C2_ReadBackRoundTrip ==
    (src.op = "readGitSexpExpression" /\ js # NoJs) =>
        \A e \in encoded : e.oid = src.oid => js = e.value

\* C3: two written values have the same id exactly when they are equal, and
\* only null has the id of the empty tree.
C3_ContentAddressing ==
    /\ \A e1, e2 \in encoded : (e1.oid = e2.oid) <=> (e1.value = e2.value)
    /\ \A e \in encoded : (e.oid = EmptyTreeOid) <=> (e.value = JsEmptySexp)

\* The right-leaning chain of the strings of a, in order, ending in null
RECURSIVE RightLeaning(_)
RightLeaning(a) ==
    IF a = <<>> THEN JsEmptySexp
    ELSE JsCons(JsAtom(a[1]), RightLeaning(Tail(a)))

\* C6: every list-building call on the same string[], the first and each
\* later one, returns the right-leaning chain of the strings in their original
\* order; all calls give the same root id and each list converts back to the
\* original strings.
C6_FromSequenceDeterministic ==
    \A i \in 1..Len(lists) :
        /\ lists[i].list = RightLeaning(orig)
        /\ consListToStringArray(lists[i].list) = ReturnedArray(orig)
        /\ (lists[i].oid # NoExpr /\ lists[1].oid # NoExpr) => lists[i].oid = lists[1].oid

\* A chain of pairs with string cars that ends in null
RECURSIVE IsProperList(_)
IsProperList(sexp) ==
    \/ isJsEmptySexp(sexp)
    \/ isJsCons(sexp) /\ isJsAtom(sexp.car) /\ IsProperList(sexp.cdr)

\* Some pair along the chain of cdrs has a car that is not a string
RECURSIVE HasNonAtomCar(_)
HasNonAtomCar(sexp) ==
    isJsCons(sexp) /\ (~isJsAtom(sexp.car) \/ HasNonAtomCar(sexp.cdr))

\* The cars along the chain of cdrs, then the string the chain ends in, if any
RECURSIVE SpineStrings(_)
SpineStrings(sexp) ==
    IF isJsCons(sexp) THEN <<sexp.car.s>> \o SpineStrings(sexp.cdr)
    ELSE IF isJsAtom(sexp) THEN <<sexp.s>>
    ELSE <<>>

C8_PrependKeepsInput ==
    src.op = "consStringOntoGitSexpExpression" =>
        /\ IsCons(expr)
        /\ expr.oid # src.sexp.oid
        /\ expr.cdr.oid = src.sexp.oid
        /\ FindEntry(store[expr.oid].entries, "cdr").oid = src.sexp.oid
        /\ \A o \in DOMAIN src.store : o \in DOMAIN store /\ store[o] = src.store[o]
        /\ readGitSexpExpression(store, src.sexp.oid)
               = readGitSexpExpression(src.store, src.sexp.oid)
        /\ LET before == consListToStringArray(gitSexpToJsSexp(src.sexp))
           IN  (arr # NoArray /\ before # ThrownArray) =>
                   arr = ReturnedArray(<<src.str>> \o before.val)

C8_Witness ==
    /\ src.op = "consStringOntoGitSexpExpression"
    /\ IsCons(src.sexp)
    /\ arr = ReturnedArray(<<src.str>>
                 \o consListToStringArray(gitSexpToJsSexp(src.sexp)).val)
    /\ consListToStringArray(gitSexpToJsSexp(
           readGitSexpExpression(store, src.sexp.oid))).state = "returned"

IsCarCdr(entries) ==
    /\ Len(entries) = 2
    /\ {entries[i].path : i \in 1..Len(entries)} = {"car", "cdr"}

\* The id is not the empty tree's and names no object, or an object that is
\* neither a blob nor a car/cdr tree, or a car/cdr tree with such a child
RECURSIVE IsInvalidOid(_, _)
IsInvalidOid(st, oid) ==
    /\ oid # EmptyTreeOid
    /\ \/ oid \notin DOMAIN st
       \/ st[oid].type \notin {"blob", "tree"}
       \/ /\ st[oid].type = "tree"
          /\ \/ ~IsCarCdr(st[oid].entries)
             \/ \E i \in 1..2 : IsInvalidOid(st, st[oid].entries[i].oid)

\* C9: readGitSexpExpression throws on an id that is absent or invalid, or
\* that reaches such an id through car and cdr.
C9_InvalidObjectThrows ==
    (src.op = "readGitSexpExpression" /\ IsInvalidOid(store, src.oid)) => expr = Thrown

\* The foo/bar tree is in the store and was read
C9_Witness ==
    /\ src.op = "readGitSexpExpression"
    /\ src.oid = Hash(Tree(FooBar))
    /\ src.oid \in DOMAIN store
    /\ expr = Thrown

\* The commits from oid back along first parents
RECURSIVE ChainFrom(_, _)
ChainFrom(st, oid) ==
    IF oid \notin DOMAIN st THEN <<>>
    ELSE IF st[oid].parent = <<>> THEN <<oid>>
    ELSE <<oid>> \o ChainFrom(st, st[oid].parent[1])

Range(f) == {f[i] : i \in DOMAIN f}

\* C4: after n updateBranchHead calls on an initialized history the chain from
\* the branch head has n+1 commits, their trees the appended lists in reverse
\* order, ending at the initial commit; every commit has at most one parent
\* and is on the chain; loadHistoryGitSexpList returns the last appended list
\* (the empty list when n = 0).
C4_AppendMonotonic ==
    head # <<>> =>
        LET chain == ChainFrom(store, head[1])
            n == Len(appended)
            last == IF n = 0 THEN EmptyTreeOid ELSE appended[n]
        IN  /\ Len(chain) = n + 1
            /\ \A i \in 1..n : store[chain[i]].tree = appended[n + 1 - i]
            /\ store[chain[n + 1]].parent = <<>>
            /\ store[chain[n + 1]].tree = EmptyTreeOid
            /\ \A c \in Commits(store) : Len(store[c].parent) <= 1
            /\ Commits(store) = Range(chain)
            /\ src.op = "loadHistoryGitSexpList" =>
                   /\ IsList(expr)
                   /\ expr.oid = last
                   /\ expr = readGitSexpExpression(store, last)

C4_Witness ==
    /\ src.op = "loadHistoryGitSexpList"
    /\ Len(appended) = 3
    /\ appended[1] # appended[2]
    /\ IsCons(expr)
    /\ expr.oid = appended[3]
    /\ Len(ChainFrom(store, head[1])) = 4

InitialCommits(st) == {c \in Commits(st) : st[c].parent = <<>>}

\* C5: setupGitSexpRepo writes the initial commit (tree: the empty tree, no
\* parent) only when there is no branch; called when the branch exists it
\* leaves the store and the branch head as they are; there is always exactly
\* one initial commit once the branch exists.
C5_IdempotentInitialize ==
    /\ head = <<>> => Commits(store) = {}
    /\ head # <<>> =>
           /\ Cardinality(InitialCommits(store)) = 1
           /\ \A c \in InitialCommits(store) : store[c].tree = EmptyTreeOid
    /\ src.op = "setupGitSexpRepo" =>
           IF src.head # <<>> THEN head = src.head /\ store = src.store
           ELSE /\ head # <<>>
                /\ InitialCommits(store) = {head[1]}
                /\ Commits(store) = {head[1]}

\* setupGitSexpRepo was called again after two appends
C5_Witness ==
    /\ src.op = "setupGitSexpRepo"
    /\ src.head # <<>>
    /\ Len(appended) = 2
    /\ head = src.head
    /\ Cardinality(Commits(store)) = 3

\* The last updateBranchHead of each of two writers has completed, and both
\* resolved the same head commit
SameTipSeen(w1, w2) ==
    /\ w1 # w2
    /\ pc[w1].at = "idle" /\ made[w1] # NoExpr
    /\ pc[w2].at = "idle" /\ made[w2] # NoExpr
    /\ seen[w1] = seen[w2]

\* C10: when two concurrent updateBranchHead calls resolve the same head
\* commit, both commits get it as parent, and after both complete one of them
\* is not on the chain from the branch head: loadHistoryGitSexpList does not
\* return its list, and the chain has fewer commits than completed calls plus one.
C10_LostUpdate ==
    \A w1, w2 \in Writers :
        (SameTipSeen(w1, w2) /\ arg[w1].oid # arg[w2].oid) =>
            LET chain == ChainFrom(store, head[1])
            IN  /\ store[made[w1]].parent = <<seen[w1]>>
                /\ store[made[w2]].parent = <<seen[w2]>>
                /\ \E l \in {w1, w2} :
                       /\ made[l] \notin Range(chain)
                       /\ loadHistoryGitSexpList(store, head).oid # arg[l].oid
                /\ Len(chain) < Len(appended) + 1

C10_Witness ==
    /\ SameTipSeen(1, 2)
    /\ arg[1].oid # arg[2].oid
    /\ head = <<made[2]>>
    /\ made[1] \notin Range(ChainFrom(store, head[1]))
    /\ Len(appended) = 2

====
